---- MODULE Spec2Model ----
(***************************************************************************)
(* Model of flowrs-img: the WebcamNode lifecycle handlers                   *)
(* (src/src/nodes/webcam.rs) driven by an arbitrary host that may call      *)
(* on_init / on_update / on_shutdown in any order, send trigger tokens to   *)
(* the node's input and finally destroy the node.                           *)
(* DecodeImageNode and ImageToArray3Node (src/src/nodes/transform.rs) are    *)
(* modelled further down, with the pipeline of the transport test.          *)
(*                                                                          *)
(* The OpenCV driver and the flowrs channels are the environment: every     *)
(* call into them returns one of the outcomes its signature allows, chosen  *)
(* nondeterministically.                                                    *)
(***************************************************************************)
EXTENDS Integers, Sequences, FiniteSets, TLC

\* ---------------------------------------------------------------- bounds
MaxInits == 2          \* on_init calls per node instance
MaxTokens == 2         \* trigger tokens the host sends to the input
MaxCalls == 3          \* on_update + on_shutdown calls per node instance

\* --------------------------------------------------------------- state
VARIABLES
    camera,       \* WebcamNode.camera: 0 is None, h > 0 is Some(handle h)
    created,      \* number of VideoCapture handles constructed so far
    opened,       \* opened[h]: the driver currently holds the device for h
    everOpened,   \* everOpened[h]: handle h was successfully opened
    releases,     \* releases[h]: release requests for h the driver completed
    releaseCalls, \* cam.release() calls made by on_shutdown so far
    dropped,      \* dropped[h]: the VideoCapture value h was destroyed
    input,        \* tokens waiting in WebcamNode.input
    output,       \* frames delivered to the edge connected to WebcamNode.output
    reads,        \* cam.read calls made so far
    result,       \* value returned by the last handler call
    lastOp,       \* the last operation performed on the node
    hadToken,     \* the last on_update found a token in the input
    lastRead,     \* what cam.read did in the last on_update
    lastSend,     \* what output.send did in the last on_update
    alive,        \* the node instance has not been destroyed
    initCalls,    \* on_init calls so far
    initOks,      \* on_init calls that returned Ok
    initFailed,   \* some on_init call returned an error
    shutdownOk,   \* some on_shutdown call returned Ok
    sendFailed,   \* some on_update failed only in output.send
    tokensSent,   \* tokens the host has sent to the input
    calls         \* on_update + on_shutdown calls so far

vars == <<camera, created, opened, everOpened, releases, releaseCalls,
          dropped, input, output, reads, result, lastOp, hadToken, lastRead,
          lastSend, alive, initCalls, initOks, initFailed, shutdownOk,
          sendFailed, tokensSent, calls>>

None == 0
Handles == 1..MaxInits

\* ------------------------------------------------- environment outcomes
\* What the calls of on_init into the driver can produce, in code order.
InitOutcomes == {"NewErr", "IsOpenedErr", "NotOpened",
                 "SetWidthErr", "SetHeightErr", "Ok"}

\* cam.read(&mut frame): Ok(true), Ok(false) or Err; a device the driver no
\* longer holds cannot deliver a frame.
ReadOutcomes(isOpen) ==
    IF isOpen THEN {"True", "False", "Err"} ELSE {"False", "Err"}

\* cvt_color(...): Ok or Err.
CvtOutcomes == {"Ok", "Err"}

\* self.output.clone().send(dyn_img): Ok or Err.
SendOutcomes == {"Ok", "Err"}

\* cam.release(): Ok or Err.
ReleaseOutcomes == {"Ok", "Err"}

\* ------------------------------------------------------------- on_init
\* VideoCapture::new returned a handle (the local `camera` exists).
InitCreates(o) == o # "NewErr"

\* is_opened returned true: the driver holds the device for the new handle.
InitOpens(o) == o \in {"SetWidthErr", "SetHeightErr", "Ok"}

\* Value returned by on_init.
InitResult(o) == IF o = "Ok" THEN "Ok" ELSE "InitError"

\* on_init that stores the handle as soon as the device is open, before the
\* resolution is applied.
InitCamera_StoreOnOpen(cam, o, h) == IF InitOpens(o) THEN h ELSE cam

\* self.camera after on_init: assigned only on the last line before Ok(()).
InitCamera(cam, o, h) == IF o = "Ok" THEN h ELSE cam

OnInit ==
    /\ alive
    /\ initCalls < MaxInits
    /\ \E o \in InitOutcomes :
        LET h == created + 1
            new == InitCamera(camera, o, h)
            \* the old Option<VideoCapture> is destroyed by the assignment
            old == IF new # camera THEN camera ELSE None
            \* the local handle is destroyed on every early return
            tmp == IF InitCreates(o) /\ new # h THEN h ELSE None
            gone == {old, tmp} \ {None}
        IN  /\ created' = IF InitCreates(o) THEN h ELSE created
            /\ camera' = new
            /\ everOpened' = IF InitCreates(o)
                                THEN [everOpened EXCEPT ![h] = InitOpens(o)]
                                ELSE everOpened
            /\ opened' = [x \in Handles |->
                            IF x \in gone THEN FALSE
                            ELSE IF x = h /\ InitCreates(o) THEN InitOpens(o)
                            ELSE opened[x]]
            /\ releases' = [x \in Handles |->
                            IF x = old /\ opened[x] THEN releases[x] + 1
                            ELSE IF x = tmp /\ InitOpens(o) THEN releases[x] + 1
                            ELSE releases[x]]
            /\ dropped' = [x \in Handles |-> dropped[x] \/ x \in gone]
            /\ result' = InitResult(o)
            /\ initOks' = IF InitResult(o) = "Ok" THEN initOks + 1 ELSE initOks
            /\ initFailed' = (initFailed \/ InitResult(o) # "Ok")
    /\ initCalls' = initCalls + 1
    /\ lastOp' = "init"
    /\ hadToken' = FALSE
    /\ lastRead' = "NotCalled"
    /\ lastSend' = "NotCalled"
    /\ UNCHANGED <<releaseCalls, input, output, reads, alive, shutdownOk,
                   sendFailed, tokensSent, calls>>

\* ----------------------------------------------------------- on_update
\* on_update that looks at the camera before it looks at the input.
UpdateOutcome_CameraFirst(hasToken, cam, rd, cvt, snd) ==
    IF cam = None THEN
        [res |-> "NoCamToUpdate", took |-> FALSE, read |-> "NotCalled",
         send |-> "NotCalled"]
    ELSE IF ~hasToken THEN
        [res |-> "Ok", took |-> FALSE, read |-> "NotCalled", send |-> "NotCalled"]
    ELSE IF rd # "True" THEN
        [res |-> "ReadFailed", took |-> TRUE, read |-> rd, send |-> "NotCalled"]
    ELSE IF cvt # "Ok" THEN
        [res |-> "Panic", took |-> TRUE, read |-> rd, send |-> "NotCalled"]
    ELSE IF snd # "Ok" THEN
        [res |-> "SendFailed", took |-> TRUE, read |-> rd, send |-> snd]
    ELSE
        [res |-> "Ok", took |-> TRUE, read |-> rd, send |-> snd]

\* on_update that captures whether or not the input holds a token.
UpdateOutcome_NoTrigger(hasToken, cam, rd, cvt, snd) ==
    IF cam = None THEN
        [res |-> (IF hasToken THEN "NoCamToUpdate" ELSE "Ok"),
         took |-> hasToken, read |-> "NotCalled", send |-> "NotCalled"]
    ELSE IF rd # "True" THEN
        [res |-> "ReadFailed", took |-> hasToken, read |-> rd,
         send |-> "NotCalled"]
    ELSE IF cvt # "Ok" THEN
        [res |-> "Panic", took |-> hasToken, read |-> rd, send |-> "NotCalled"]
    ELSE IF snd # "Ok" THEN
        [res |-> "SendFailed", took |-> hasToken, read |-> rd, send |-> snd]
    ELSE
        [res |-> "Ok", took |-> hasToken, read |-> rd, send |-> snd]

\* on_update that treats a missing camera as nothing to do.
UpdateOutcome_NoCamIsOk(hasToken, cam, rd, cvt, snd) ==
    IF ~hasToken THEN
        [res |-> "Ok", took |-> FALSE, read |-> "NotCalled", send |-> "NotCalled"]
    ELSE IF cam = None THEN
        [res |-> "Ok", took |-> TRUE, read |-> "NotCalled", send |-> "NotCalled"]
    ELSE IF rd # "True" THEN
        [res |-> "ReadFailed", took |-> TRUE, read |-> rd, send |-> "NotCalled"]
    ELSE IF cvt # "Ok" THEN
        [res |-> "Panic", took |-> TRUE, read |-> rd, send |-> "NotCalled"]
    ELSE IF snd # "Ok" THEN
        [res |-> "SendFailed", took |-> TRUE, read |-> rd, send |-> snd]
    ELSE
        [res |-> "Ok", took |-> TRUE, read |-> rd, send |-> snd]

\* on_update that discards the result of output.send (let _ = ...).
UpdateOutcome_SendIgnored(hasToken, cam, rd, cvt, snd) ==
    IF ~hasToken THEN
        [res |-> "Ok", took |-> FALSE, read |-> "NotCalled", send |-> "NotCalled"]
    ELSE IF cam = None THEN
        [res |-> "NoCamToUpdate", took |-> TRUE, read |-> "NotCalled",
         send |-> "NotCalled"]
    ELSE IF rd # "True" THEN
        [res |-> "ReadFailed", took |-> TRUE, read |-> rd, send |-> "NotCalled"]
    ELSE IF cvt # "Ok" THEN
        [res |-> "Panic", took |-> TRUE, read |-> rd, send |-> "NotCalled"]
    ELSE
        [res |-> "Ok", took |-> TRUE, read |-> rd, send |-> snd]

\* on_update that ignores the bool cam.read returns (only Err is an error).
UpdateOutcome_ReadUnchecked(hasToken, cam, rd, cvt, snd) ==
    IF ~hasToken THEN
        [res |-> "Ok", took |-> FALSE, read |-> "NotCalled", send |-> "NotCalled"]
    ELSE IF cam = None THEN
        [res |-> "NoCamToUpdate", took |-> TRUE, read |-> "NotCalled",
         send |-> "NotCalled"]
    ELSE IF rd = "Err" THEN
        [res |-> "ReadFailed", took |-> TRUE, read |-> rd, send |-> "NotCalled"]
    ELSE IF cvt # "Ok" THEN
        [res |-> "Panic", took |-> TRUE, read |-> rd, send |-> "NotCalled"]
    ELSE IF snd # "Ok" THEN
        [res |-> "SendFailed", took |-> TRUE, read |-> rd, send |-> snd]
    ELSE
        [res |-> "Ok", took |-> TRUE, read |-> rd, send |-> snd]

\* on_update that takes the token out of the input only once the frame was
\* sent.
UpdateOutcome_TokenKept(hasToken, cam, rd, cvt, snd) ==
    IF ~hasToken THEN
        [res |-> "Ok", took |-> FALSE, read |-> "NotCalled", send |-> "NotCalled"]
    ELSE IF cam = None THEN
        [res |-> "NoCamToUpdate", took |-> FALSE, read |-> "NotCalled",
         send |-> "NotCalled"]
    ELSE IF rd # "True" THEN
        [res |-> "ReadFailed", took |-> FALSE, read |-> rd, send |-> "NotCalled"]
    ELSE IF cvt # "Ok" THEN
        [res |-> "Panic", took |-> FALSE, read |-> rd, send |-> "NotCalled"]
    ELSE IF snd # "Ok" THEN
        [res |-> "SendFailed", took |-> FALSE, read |-> rd, send |-> snd]
    ELSE
        [res |-> "Ok", took |-> TRUE, read |-> rd, send |-> snd]

\* The path on_update takes, in code order: what it returns, whether it
\* consumed a token, what cam.read did and what output.send did.
UpdateOutcome(hasToken, cam, rd, cvt, snd) ==
    IF ~hasToken THEN
        [res |-> "Ok", took |-> FALSE, read |-> "NotCalled", send |-> "NotCalled"]
    ELSE IF cam = None THEN
        [res |-> "NoCamToUpdate", took |-> TRUE, read |-> "NotCalled",
         send |-> "NotCalled"]
    ELSE IF rd # "True" THEN
        [res |-> "ReadFailed", took |-> TRUE, read |-> rd, send |-> "NotCalled"]
    ELSE IF cvt # "Ok" THEN
        [res |-> "Panic", took |-> TRUE, read |-> rd, send |-> "NotCalled"]
    ELSE IF snd # "Ok" THEN
        [res |-> "SendFailed", took |-> TRUE, read |-> rd, send |-> snd]
    ELSE
        [res |-> "Ok", took |-> TRUE, read |-> rd, send |-> snd]

OnUpdate ==
    /\ alive
    /\ calls < MaxCalls
    /\ \E rd \in ReadOutcomes(camera # None /\ opened[camera]),
          cvt \in CvtOutcomes, snd \in SendOutcomes :
        LET u == UpdateOutcome(input > 0, camera, rd, cvt, snd)
        IN  /\ input' = IF u.took THEN input - 1 ELSE input
            /\ reads' = IF u.read # "NotCalled" THEN reads + 1 ELSE reads
            /\ output' = IF u.send = "Ok" THEN output + 1 ELSE output
            /\ result' = u.res
            /\ lastRead' = u.read
            /\ lastSend' = u.send
            /\ sendFailed' = (sendFailed \/ u.send = "Err")
    /\ hadToken' = (input > 0)
    /\ lastOp' = "update"
    /\ calls' = calls + 1
    /\ UNCHANGED <<camera, created, opened, everOpened, releases,
                   releaseCalls, dropped, alive, initCalls, initOks,
                   initFailed, shutdownOk, tokensSent>>

\* --------------------------------------------------------- on_shutdown
\* on_shutdown that treats a missing camera as already shut down.
ShutdownOutcome_Silent(cam, rel) ==
    IF cam = None THEN
        [res |-> "Ok", called |-> FALSE, freed |-> FALSE]
    ELSE IF rel # "Ok" THEN
        [res |-> "ReleaseError", called |-> TRUE, freed |-> FALSE]
    ELSE
        [res |-> "Ok", called |-> TRUE, freed |-> TRUE]

\* The path on_shutdown takes: what it returns, whether it called
\* cam.release() and whether the driver freed the device.
ShutdownOutcome(cam, rel) ==
    IF cam = None THEN
        [res |-> "NoCamToShutdown", called |-> FALSE, freed |-> FALSE]
    ELSE IF rel # "Ok" THEN
        [res |-> "ReleaseError", called |-> TRUE, freed |-> FALSE]
    ELSE
        [res |-> "Ok", called |-> TRUE, freed |-> TRUE]

OnShutdown ==
    /\ alive
    /\ calls < MaxCalls
    /\ \E rel \in ReleaseOutcomes :
        LET s == ShutdownOutcome(camera, rel)
        IN  /\ releaseCalls' = IF s.called THEN releaseCalls + 1
                                            ELSE releaseCalls
            /\ releases' = IF s.freed /\ camera # None
                              THEN [releases EXCEPT ![camera] = @ + 1]
                              ELSE releases
            /\ opened' = IF s.freed /\ camera # None
                            THEN [opened EXCEPT ![camera] = FALSE]
                            ELSE opened
            /\ result' = s.res
            /\ shutdownOk' = (shutdownOk \/ s.res = "Ok")
    /\ lastOp' = "shutdown"
    /\ hadToken' = FALSE
    /\ lastRead' = "NotCalled"
    /\ lastSend' = "NotCalled"
    /\ calls' = calls + 1
    /\ UNCHANGED <<camera, created, everOpened, dropped, input, output,
                   reads, alive, initCalls, initOks, initFailed, sendFailed,
                   tokensSent>>

\* ------------------------------------------------------ host and teardown
\* The host (or an upstream node) sends a trigger token to WebcamNode.input.
SendToken ==
    /\ alive
    /\ tokensSent < MaxTokens
    /\ input' = input + 1
    /\ tokensSent' = tokensSent + 1
    /\ lastOp' = "token"
    /\ hadToken' = FALSE
    /\ lastRead' = "NotCalled"
    /\ lastSend' = "NotCalled"
    /\ UNCHANGED <<camera, created, opened, everOpened, releases,
                   releaseCalls, dropped,
                   output, reads, result, alive, initCalls, initOks,
                   initFailed, shutdownOk, sendFailed, calls>>

\* The node is destroyed: its fields are destroyed with it, and destroying a
\* VideoCapture frees the device if the driver still holds it.
DropNode ==
    /\ alive
    /\ alive' = FALSE
    /\ dropped' = [x \in Handles |-> dropped[x] \/ x = camera]
    /\ opened' = [x \in Handles |-> IF x = camera THEN FALSE ELSE opened[x]]
    /\ releases' = [x \in Handles |->
                      IF x = camera /\ opened[x] THEN releases[x] + 1
                      ELSE releases[x]]
    /\ lastOp' = "drop"
    /\ hadToken' = FALSE
    /\ lastRead' = "NotCalled"
    /\ lastSend' = "NotCalled"
    /\ UNCHANGED <<camera, created, everOpened, releaseCalls, input, output, reads, result,
                   initCalls, initOks, initFailed, shutdownOk, sendFailed,
                   tokensSent, calls>>

\* ------------------------------------------------------- specification
\* WebcamNode::new
Init ==
    /\ camera = None
    /\ created = 0
    /\ opened = [x \in Handles |-> FALSE]
    /\ everOpened = [x \in Handles |-> FALSE]
    /\ releases = [x \in Handles |-> 0]
    /\ releaseCalls = 0
    /\ dropped = [x \in Handles |-> FALSE]
    /\ input = 0
    /\ output = 0
    /\ reads = 0
    /\ result = "None"
    /\ lastOp = "none"
    /\ hadToken = FALSE
    /\ lastRead = "NotCalled"
    /\ lastSend = "NotCalled"
    /\ alive = TRUE
    /\ initCalls = 0
    /\ initOks = 0
    /\ initFailed = FALSE
    /\ shutdownOk = FALSE
    /\ sendFailed = FALSE
    /\ tokensSent = 0
    /\ calls = 0


\* ========================================================= transform nodes
\* src/src/nodes/transform.rs: DecodeImageNode and ImageToArray3Node.
VARIABLES
    imgIn,        \* images waiting in ImageToArray3Node.input
    arrOut,       \* tensors delivered to the edge after ImageToArray3Node.output
    arrRes,       \* value returned by the last ImageToArray3Node::on_update
    arrSend,      \* what output.send did in that call
    lastImg,      \* the image that call took from the input (NoImage if none)
    bytesIn,      \* byte buffers waiting in DecodeImageNode.input
    decOut,       \* images delivered to the edge after DecodeImageNode.output
    decRes,       \* value returned by the last DecodeImageNode::on_update
    decSend,      \* what output.send did in that call
    lastBytes,    \* the buffer that call took from the input (NoBytes if none)
    sent,         \* values the host has sent to the two inputs so far
    pc            \* position of the host in the pipeline scenario

tvars == <<imgIn, arrOut, arrRes, arrSend, lastImg, bytesIn, decOut, decRes,
           decSend, lastBytes, sent>>

allvars == <<vars, tvars, pc>>

MaxDim == 2       \* largest image width and height
MaxSent == 1      \* values the host sends to the transform nodes' inputs

\* ------------------------------------------------------------ DynamicImage
\* The ten variants of image::DynamicImage matched by on_update.
TenTags == {"Luma8", "LumaA8", "Rgb8", "Rgba8", "Luma16", "LumaA16",
            "Rgb16", "Rgba16", "Rgb32F", "Rgba32F"}

\* DynamicImage is a non-exhaustive enum: "Other" stands for any variant
\* beyond the ten, which on_update matches with `_`.
Tags == TenTags \cup {"Other"}

\* Pixel::CHANNEL_COUNT of the variant's pixel type.
Channels(tag) ==
    CASE tag \in {"Luma8", "Luma16", "Other"} -> 1
      [] tag \in {"LumaA8", "LumaA16"} -> 2
      [] tag \in {"Rgb8", "Rgb16", "Rgb32F"} -> 3
      [] tag \in {"Rgba8", "Rgba16", "Rgba32F"} -> 4

\* Pixel::Subpixel of the variant's pixel type.
Subpixel(tag) ==
    CASE tag \in {"Luma8", "LumaA8", "Rgb8", "Rgba8", "Other"} -> "u8"
      [] tag \in {"Luma16", "LumaA16", "Rgb16", "Rgba16"} -> "u16"
      [] tag \in {"Rgb32F", "Rgba32F"} -> "f32"

\* The i-th sample (from 0) of a test buffer: a typed value within the range
\* of its sample type, different from its neighbours.
SampleAt(ty, base, i) ==
    [ty |-> ty,
     v |-> CASE ty = "u8" -> (base + 190 * i) % 256
             [] ty = "u16" -> (base * 257 + 25000 * i) % 65536
             [] ty = "f32" -> base + i]

\* ImageBuffer<P, Vec<P::Subpixel>>: width, height and the row-major sample
\* buffer of width * height * channels samples.
MkImage(tag, w, h, base) ==
    [tag |-> tag, w |-> w, h |-> h,
     buf |-> [i \in 1..(w * h * Channels(tag)) |->
                SampleAt(Subpixel(tag), base, i - 1)]]

Images ==
    {MkImage(tag, w, h, base) :
        tag \in Tags, w \in 1..MaxDim, h \in 1..MaxDim, base \in {10}}

NoImage == [tag |-> "None", w |-> 0, h |-> 0, buf |-> <<>>]

\* --------------------------------------------------------------- Array3<T>
\* A conversion that narrows every sample to 8 bits (`x as u8`).
SampleInto_AsU8(s) == s.v % 256

\* T::from(sample): the lossless numeric widening of u8, u16 or f32 into T.
SampleInto(s) == s.v

\* nshare's into_ndarray3 for an ImageBuffer: the raw buffer viewed with
\* shape (channels, height, width) and strides (1, width * channels,
\* channels).
IntoNdarray3(img) ==
    LET c == Channels(img.tag)
    IN  [shape |-> <<c, img.h, img.w>>,
         strides |-> <<1, img.w * c, c>>,
         data |-> img.buf]

\* ArrayBase::mapv: the same shape and strides, every element mapped.
Mapv(a, F(_)) ==
    [shape |-> a.shape, strides |-> a.strides,
     data |-> [i \in 1..Len(a.data) |-> F(a.data[i])]]

\* Indexing a[[i, j, k]] (indices from 0).
At(a, i, j, k) ==
    a.data[i * a.strides[1] + j * a.strides[2] + k * a.strides[3] + 1]

\* ArrayBase::len: the number of elements.
NumElements(a) == a.shape[1] * a.shape[2] * a.shape[3]

\* handle_image up to the send: the tensor built from the image.
HandleImage(img) == Mapv(IntoNdarray3(img), SampleInto)

NoArray == [shape |-> <<0, 0, 0>>, strides |-> <<0, 0, 0>>, data |-> <<>>]

\* ------------------------------------------- ImageToArray3Node::on_update
\* on_update whose catch-all arm does nothing (`_ => Ok(())`).
ArrayUpdateOutcome_Fallthrough(hasImg, img, snd) ==
    IF ~hasImg THEN
        [res |-> "Ok", took |-> FALSE, send |-> "NotCalled", arr |-> NoArray]
    ELSE IF img.tag \in TenTags THEN
        [res |-> (IF snd = "Ok" THEN "Ok" ELSE "SendFailed"), took |-> TRUE,
         send |-> snd, arr |-> HandleImage(img)]
    ELSE
        [res |-> "Ok", took |-> TRUE, send |-> "NotCalled", arr |-> NoArray]

\* on_update that discards the result of output.send (`let _ = ...`).
ArrayUpdateOutcome_SendIgnored(hasImg, img, snd) ==
    IF ~hasImg THEN
        [res |-> "Ok", took |-> FALSE, send |-> "NotCalled", arr |-> NoArray]
    ELSE IF img.tag \in TenTags THEN
        [res |-> "Ok", took |-> TRUE, send |-> snd, arr |-> HandleImage(img)]
    ELSE
        [res |-> "Unsupported", took |-> TRUE, send |-> "NotCalled",
         arr |-> NoArray]

\* The path on_update takes: what it returns, whether it took an image from
\* the input, what output.send did and the tensor handed to it.
ArrayUpdateOutcome(hasImg, img, snd) ==
    IF ~hasImg THEN
        [res |-> "Ok", took |-> FALSE, send |-> "NotCalled", arr |-> NoArray]
    ELSE IF img.tag \in TenTags THEN
        [res |-> (IF snd = "Ok" THEN "Ok" ELSE "SendFailed"), took |-> TRUE,
         send |-> snd, arr |-> HandleImage(img)]
    ELSE
        [res |-> "Unsupported", took |-> TRUE, send |-> "NotCalled",
         arr |-> NoArray]

ArrayUpdate ==
    /\ \E snd \in SendOutcomes :
        LET hasImg == imgIn # <<>>
            img == IF hasImg THEN Head(imgIn) ELSE NoImage
            u == ArrayUpdateOutcome(hasImg, img, snd)
        IN  /\ imgIn' = IF u.took THEN Tail(imgIn) ELSE imgIn
            /\ arrOut' = IF u.send = "Ok" THEN Append(arrOut, u.arr) ELSE arrOut
            /\ arrRes' = u.res
            /\ arrSend' = u.send
            /\ lastImg' = img
    /\ UNCHANGED <<bytesIn, decOut, decRes, decSend, lastBytes, sent>>

\* The host (or an upstream node) sends an image to ImageToArray3Node.input.
SendImage ==
    /\ sent < MaxSent
    /\ \E img \in Images : imgIn' = Append(imgIn, img)
    /\ sent' = sent + 1
    /\ UNCHANGED <<arrOut, arrRes, arrSend, lastImg, bytesIn, decOut, decRes,
                   decSend, lastBytes>>

\* ------------------------------------------------------ encoded images
\* A stand-in for the public raster formats: a one-word signature, the pixel
\* layout, width and height, then one word per sample.
TagSeq == <<"Luma8", "LumaA8", "Rgb8", "Rgba8", "Luma16", "LumaA16",
            "Rgb16", "Rgba16", "Rgb32F", "Rgba32F">>

TagCode(tag) == CHOOSE i \in 1..Len(TagSeq) : TagSeq[i] = tag

Encode(img) ==
    <<137, TagCode(img.tag), img.w, img.h>>
        \o [i \in 1..Len(img.buf) |-> img.buf[i].v]

\* ImageReader::with_guessed_format: the format is read off the signature.
GuessFormat(bytes) ==
    IF Len(bytes) >= 1 /\ bytes[1] = 137 THEN "Known" ELSE "None"

\* ImageReader::decode: an error without a format or on a malformed body,
\* else the image the buffer describes.
Decode(bytes) ==
    IF GuessFormat(bytes) = "None" THEN
        [ok |-> FALSE, err |-> "UnrecognizedFormat", img |-> NoImage]
    ELSE IF \/ Len(bytes) < 4
            \/ bytes[2] \notin 1..Len(TagSeq)
            \/ bytes[3] < 1 \/ bytes[4] < 1
            \/ Len(bytes) # 4 + bytes[3] * bytes[4] * Channels(TagSeq[bytes[2]])
    THEN
        [ok |-> FALSE, err |-> "CorruptData", img |-> NoImage]
    ELSE
        LET tag == TagSeq[bytes[2]]
        IN  [ok |-> TRUE, err |-> "None",
             img |-> [tag |-> tag, w |-> bytes[3], h |-> bytes[4],
                      buf |-> [i \in 1..(Len(bytes) - 4) |->
                                 [ty |-> Subpixel(tag), v |-> bytes[4 + i]]]]]

\* Buffers the host may send: empty, noise, a bare signature, well-formed
\* encodings and encodings cut short by one word.
ByteInputs ==
    {<<>>, <<7, 7, 7>>, <<137>>}
        \cup {Encode(img) : img \in {x \in Images : x.tag \in TenTags}}
        \cup {SubSeq(Encode(img), 1, Len(Encode(img)) - 1) :
                img \in {x \in Images : x.tag \in TenTags}}

NoBytes == <<0>>

\* --------------------------------------------- DecodeImageNode::on_update
\* on_update that sends only what decodes (`if let Ok(img) = ...decode()`).
DecodeUpdateOutcome_Swallow(hasData, bytes, snd) ==
    IF ~hasData THEN
        [res |-> "Ok", took |-> FALSE, send |-> "NotCalled", img |-> NoImage]
    ELSE IF ~Decode(bytes).ok THEN
        [res |-> "Ok", took |-> TRUE, send |-> "NotCalled", img |-> NoImage]
    ELSE
        [res |-> (IF snd = "Ok" THEN "Ok" ELSE "SendFailed"), took |-> TRUE,
         send |-> snd, img |-> Decode(bytes).img]

\* The path on_update takes: what it returns, whether it took a buffer from
\* the input, what output.send did and the image handed to it.
DecodeUpdateOutcome(hasData, bytes, snd) ==
    IF ~hasData THEN
        [res |-> "Ok", took |-> FALSE, send |-> "NotCalled", img |-> NoImage]
    ELSE IF ~Decode(bytes).ok THEN
        [res |-> "DecodeError", took |-> TRUE, send |-> "NotCalled",
         img |-> NoImage]
    ELSE
        [res |-> (IF snd = "Ok" THEN "Ok" ELSE "SendFailed"), took |-> TRUE,
         send |-> snd, img |-> Decode(bytes).img]

DecodeUpdate ==
    /\ \E snd \in SendOutcomes :
        LET hasData == bytesIn # <<>>
            bytes == IF hasData THEN Head(bytesIn) ELSE NoBytes
            u == DecodeUpdateOutcome(hasData, bytes, snd)
        IN  /\ bytesIn' = IF u.took THEN Tail(bytesIn) ELSE bytesIn
            /\ decOut' = IF u.send = "Ok" THEN Append(decOut, u.img) ELSE decOut
            /\ decRes' = u.res
            /\ decSend' = u.send
            /\ lastBytes' = bytes
    /\ UNCHANGED <<imgIn, arrOut, arrRes, arrSend, lastImg, sent>>

\* The host (or an upstream node) sends a buffer to DecodeImageNode.input.
SendBytes ==
    /\ sent < MaxSent
    /\ \E bytes \in ByteInputs : bytesIn' = Append(bytesIn, bytes)
    /\ sent' = sent + 1
    /\ UNCHANGED <<imgIn, arrOut, arrRes, arrSend, lastImg, decOut, decRes,
                   decSend, lastBytes>>

\* DecodeImageNode::new and ImageToArray3Node::new
TransformInit ==
    /\ imgIn = <<>>
    /\ arrOut = <<>>
    /\ arrRes = "None"
    /\ arrSend = "NotCalled"
    /\ lastImg = NoImage
    /\ bytesIn = <<>>
    /\ decOut = <<>>
    /\ decRes = "None"
    /\ decSend = "NotCalled"
    /\ lastBytes = NoBytes
    /\ sent = 0

\* All three nodes freshly constructed, with a host that follows no script.
FreeInit ==
    /\ Init
    /\ TransformInit
    /\ pc = "free"

\* The transform nodes on their own, driven by a host that sends images and
\* buffers and calls on_update in any order.
TransformNext ==
    \/ SendImage /\ UNCHANGED <<vars, pc>>
    \/ ArrayUpdate /\ UNCHANGED <<vars, pc>>
    \/ SendBytes /\ UNCHANGED <<vars, pc>>
    \/ DecodeUpdate /\ UNCHANGED <<vars, pc>>

SpecTransform == FreeInit /\ [][TransformNext]_allvars

\* The webcam node on its own, driven by a host that calls its handlers in
\* any order.
Next ==
    \/ OnInit /\ UNCHANGED <<tvars, pc>>
    \/ OnUpdate /\ UNCHANGED <<tvars, pc>>
    \/ OnShutdown /\ UNCHANGED <<tvars, pc>>
    \/ SendToken /\ UNCHANGED <<tvars, pc>>
    \/ DropNode /\ UNCHANGED <<tvars, pc>>

Spec == FreeInit /\ [][Next]_allvars

\* ------------------------------------------------------------- pipeline
\* tests/flow/flow_transport/image_transport.rs: WebcamNode.output is
\* connected to ImageToArray3Node.input and ImageToArray3Node.output to an
\* edge the host reads; the host makes each call once, in order, and stops
\* at the first error.

\* The RGB frames on_update builds from what the device delivers.
Frames ==
    {MkImage("Rgb8", w, h, base) :
        w \in 1..MaxDim, h \in 1..MaxDim,
        base \in {0, 10, 50, 100, 150, 200}}

\* The host's next position after a call that returned res.
PipeStep(res, next) == IF res = "Ok" THEN next ELSE "aborted"

PipeInit ==
    /\ pc = "init"
    /\ OnInit
    /\ pc' = PipeStep(result', "token")
    /\ UNCHANGED tvars

PipeSendToken ==
    /\ pc = "token"
    /\ SendToken
    /\ pc' = "webcam"
    /\ UNCHANGED tvars

\* node_webcam.on_update()?: a frame that was sent arrives in the connected
\* input.
PipeWebcamUpdate ==
    /\ pc = "webcam"
    /\ OnUpdate
    /\ \E f \in Frames :
        imgIn' = IF output' = output + 1 THEN Append(imgIn, f) ELSE imgIn
    /\ pc' = PipeStep(result', "array")
    /\ UNCHANGED <<arrOut, arrRes, arrSend, lastImg, bytesIn, decOut, decRes,
                   decSend, lastBytes, sent>>

PipeArrayUpdate ==
    /\ pc = "array"
    /\ ArrayUpdate
    /\ pc' = PipeStep(arrRes', "shutdown")
    /\ UNCHANGED vars

PipeShutdown ==
    /\ pc = "shutdown"
    /\ OnShutdown
    /\ pc' = PipeStep(result', "read")
    /\ UNCHANGED tvars

\* mock_output.next()?: takes the tensor off the edge, or fails on an empty
\* edge.
PipeRead ==
    /\ pc = "read"
    /\ pc' = IF arrOut # <<>> THEN "done" ELSE "empty"
    /\ arrOut' = IF arrOut # <<>> THEN Tail(arrOut) ELSE arrOut
    /\ UNCHANGED <<vars, imgIn, arrRes, arrSend, lastImg, bytesIn, decOut,
                   decRes, decSend, lastBytes, sent>>

PipeConnect ==
    /\ Init
    /\ TransformInit
    /\ pc = "init"

PipeNext ==
    \/ PipeInit
    \/ PipeSendToken
    \/ PipeWebcamUpdate
    \/ PipeArrayUpdate
    \/ PipeShutdown
    \/ PipeRead

SpecPipe == PipeConnect /\ [][PipeNext]_allvars

\* =================================================================== claims
ErrorResults == {"InitError", "NoCamToUpdate", "ReadFailed", "SendFailed",
                 "NoCamToShutdown", "ReleaseError"}

\* C1: an on_shutdown that directly follows a successful on_shutdown returns
\* an error and does not ask the driver to release the device again.
C1_SecondShutdownIsMisuse ==
    [][(lastOp = "shutdown" /\ result = "Ok" /\ lastOp' = "shutdown")
        => (result' \in ErrorResults /\ releaseCalls' = releaseCalls
            /\ releases' = releases)]_vars

\* C2: every handle that was successfully opened is released at most once at
\* any time, and exactly once by the time it has been destroyed.
C2_ReleasedExactlyOnce ==
    \A h \in Handles :
        everOpened[h] => (releases[h] <= 1 /\ (dropped[h] => releases[h] = 1))

\* C3: once an on_shutdown has succeeded, no later call stores another camera
\* handle, opens a device or emits a frame.
C3_ShutDownIsTerminal ==
    [][shutdownOk => (camera' = camera /\ everOpened' = everOpened
                      /\ output' = output)]_vars

\* C4: once an on_init has failed (returned an error), no later call stores
\* a camera handle or emits a frame.
C4_FailedIsTerminal ==
    [][initFailed => (camera' = camera /\ output' = output)]_vars

\* C5: on_init on a node that already holds an open camera returns an error,
\* constructs no second handle and keeps the existing one.
C5_InitOnlyFromUninitialized ==
    [][(camera # None /\ opened[camera] /\ lastOp' = "init")
        => (result' \in ErrorResults /\ created' = created
            /\ camera' = camera)]_vars

\* C6: on_shutdown on a node on which no on_init ever succeeded returns the
\* 'no cam to shutdown' error, calls no release and changes nothing of the
\* node or its device.
C6_ShutdownWithoutCam ==
    [][(lastOp' = "shutdown" /\ initOks = 0)
        => (result' = "NoCamToShutdown"
            /\ releaseCalls' = releaseCalls /\ releases' = releases
            /\ camera' = camera /\ opened' = opened /\ dropped' = dropped
            /\ input' = input /\ output' = output)]_vars

C6_Witness ==
    /\ lastOp = "shutdown"
    /\ initOks = 0
    /\ initFailed
    /\ result = "NoCamToShutdown"

C10_SendFailureKeepsState ==
    [][(lastOp' = "update" /\ lastSend' = "Err"
            => (result' \in ErrorResults /\ output' = output
                /\ camera' = camera /\ camera # None
                /\ opened' = opened /\ opened[camera]
                /\ releases' = releases /\ releaseCalls' = releaseCalls))
       /\ (sendFailed /\ lastOp' = "update" /\ lastSend' = "Ok"
            => (result' = "Ok" /\ output' = output + 1))]_vars

C10_Witness ==
    /\ sendFailed
    /\ lastOp = "update"
    /\ lastSend = "Ok"
    /\ result = "Ok"
    /\ output = 1
    /\ releaseCalls = 0

\* C11: an on_update whose device read failed (Ok(false) or Err) returns an
\* error, sends nothing, has made exactly one read and has neither opened nor
\* released a device.
C11_ReadFailureIsSurfaced ==
    [][(lastOp' = "update" /\ lastRead' \in {"False", "Err"})
        => (result' \in ErrorResults /\ output' = output
            /\ lastSend' = "NotCalled" /\ reads' = reads + 1
            /\ camera' = camera /\ created' = created /\ opened' = opened
            /\ releases' = releases /\ releaseCalls' = releaseCalls)]_vars

C11_Witness ==
    /\ lastOp = "update"
    /\ lastRead = "False"
    /\ result = "ReadFailed"
    /\ camera # None
    /\ opened[camera]
    /\ reads = 1

\* C12: every on_update call returns Ok or an explicit error value; none
\* aborts.
C12_NoPanic ==
    lastOp = "update" => result \in ErrorResults \cup {"Ok"}

\* C18: every on_init that returns Ok has opened the device, stored its handle
\* and made exactly one probe read on it.
C18_InitProbesOneFrame ==
    [][(lastOp' = "init" /\ result' = "Ok")
        => (camera' # None /\ opened'[camera'] /\ reads' = reads + 1)]_vars

\* C19: a failing on_init leaves the camera handle as it was; on a node whose
\* every on_init failed, an on_update that finds a token returns the 'no cam'
\* error and on_shutdown returns the 'no cam to shutdown' error.
C19_FailedInitStoresNothing ==
    [][/\ (lastOp' = "init" /\ result' = "InitError") => camera' = camera
       /\ (initFailed /\ initOks = 0 /\ lastOp' = "update" /\ input > 0)
            => result' = "NoCamToUpdate"
       /\ (initFailed /\ initOks = 0 /\ lastOp' = "shutdown")
            => result' = "NoCamToShutdown"]_vars

C19_Witness ==
    /\ initFailed
    /\ initOks = 0
    /\ created > 0
    /\ everOpened[created]
    /\ lastOp = "update"
    /\ hadToken
    /\ result = "NoCamToUpdate"

C13_ValuesPreserved ==
    arrSend = "Ok"
        => LET t == arrOut[Len(arrOut)]
               n == lastImg.w * lastImg.h * Channels(lastImg.tag)
           IN  /\ lastImg.tag \in TenTags
               /\ NumElements(t) = n
               /\ Len(t.data) = n
               /\ \A i \in 1..n : t.data[i] = lastImg.buf[i].v

C13_Witness ==
    /\ arrSend = "Ok"
    /\ lastImg.tag = "Luma8"
    /\ lastImg.w = 2
    /\ lastImg.h = 1
    /\ arrOut[Len(arrOut)].data = <<10, 200>>

\* A second case of C13: 16-bit samples above 255 arrive unchanged.
C13_Witness16 ==
    /\ arrSend = "Ok"
    /\ lastImg.tag = "Rgba16"
    /\ \E i \in 1..Len(lastImg.buf) : lastImg.buf[i].v > 255

\* C14: the emitted tensor has shape (height, width, channels) and its
\* element [y][x][k] is channel k of the pixel in column x of row y.
C14_AxesHeightWidthChannels ==
    arrSend = "Ok"
        => LET t == arrOut[Len(arrOut)]
               c == Channels(lastImg.tag)
           IN  /\ t.shape = <<lastImg.h, lastImg.w, c>>
               /\ \A y \in 0..(lastImg.h - 1), x \in 0..(lastImg.w - 1),
                     k \in 0..(c - 1) :
                        At(t, y, x, k)
                            = lastImg.buf[(y * lastImg.w + x) * c + k + 1].v

\* C15 (as claimed): an on_update that took an image returns Ok when its tag
\* is one of the ten and an error exactly when it is not.
C15_ErrorIffUnsupported ==
    lastImg # NoImage => (arrRes = "Ok" <=> lastImg.tag \in TenTags)

\* C15 (amended): an on_update that took an image returns the unsupported-
\* layout error, sending nothing, exactly when the tag is not one of the ten;
\* for each of the ten it converts and sends, and returns Ok exactly when the
\* send succeeded; it never returns Ok without having sent a tensor.
C15_ConversionTotal ==
    lastImg # NoImage
        => /\ arrRes = "Unsupported" <=> lastImg.tag \notin TenTags
           /\ lastImg.tag \notin TenTags => arrSend = "NotCalled"
           /\ lastImg.tag \in TenTags => arrSend \in {"Ok", "Err"}
           /\ arrRes = "Ok" <=> arrSend = "Ok"

C15_Witness ==
    /\ lastImg.tag = "Other"
    /\ arrRes = "Unsupported"
    /\ arrSend = "NotCalled"
    /\ arrOut = <<>>

\* C16: a DecodeImageNode::on_update that takes a buffer that does not decode
\* returns the decode error and sends nothing.
C16_DecodeFailureIsError ==
    [][(bytesIn # <<>> /\ bytesIn' = Tail(bytesIn)
            /\ ~Decode(Head(bytesIn)).ok)
        => (decRes' = "DecodeError" /\ decSend' = "NotCalled"
            /\ decOut' = decOut)]_allvars

C16_Witness ==
    /\ lastBytes = <<>>
    /\ decRes = "DecodeError"
    /\ decOut = <<>>

\* Further cases of C16: noise and a well-formed encoding cut short.
C16_WitnessCorrupt ==
    /\ Len(lastBytes) > 4
    /\ GuessFormat(lastBytes) = "Known"
    /\ decRes = "DecodeError"

\* C17: in the pipeline, once on_init, the token, and one on_update of each
\* node in order have succeeded, the downstream edge holds exactly one
\* tensor, the one built from the webcam's frame; it is still there after the
\* webcam's on_shutdown has succeeded, so the host's read never finds the
\* edge empty.
C17_PipelineDeliversOne ==
    /\ pc \in {"shutdown", "read"}
        => /\ Len(arrOut) = 1
           /\ lastImg \in Frames
           /\ arrOut[1] = HandleImage(lastImg)
           /\ imgIn = <<>>
           /\ output = 1
    /\ pc = "read" => shutdownOk
    /\ pc # "empty"

C17_Witness ==
    /\ pc = "done"
    /\ shutdownOk
    /\ initOks = 1
    /\ tokensSent = 1
    /\ output = 1
    /\ arrSend = "Ok"

====
